---------------------------- MODULE Spec2Model ----------------------------
(***************************************************************************)
(* A model of the mercator shell: the Environment (scope stack, executor,  *)
(* completer), the root scope, and the Binance scope's command tree.       *)
(*                                                                         *)
(* Strings are sequences of one-character strings, so that tokenizing,     *)
(* prefix tests and fuzzy matching are computed character by character.    *)
(* The input alphabet has no backslash and no leading "-" on a token: the  *)
(* escape rules of the tokenizer and flag parsing are outside the model.   *)
(***************************************************************************)
EXTENDS Integers, Sequences, FiniteSets, TLC

VARIABLES
    rev,         \* which revision of the Binance domain commands is built
    creds,       \* BINANCE_API_KEY and BINANCE_API_SECRET are both set
    ScopeStack,  \* Environment.ScopeStack: scope object ids, bottom first
    scopes,      \* the scope objects built so far, by id
    proc,        \* "running", "exited" (os.Exit) or "crashed" (runtime panic)
    status,      \* the process exit status once proc # "running"
    call,        \* the last call made on the Environment and what it did
    nPush,       \* env.Push calls since NewEnvironment returned
    nPop         \* env.Pop calls that returned a scope

vars == <<rev, creds, ScopeStack, scopes, proc, status, call, nPush, nPop>>

-----------------------------------------------------------------------------
(* Bounds of the model.                                                    *)

MaxDepth == 3    \* deepest scope stack explored
MaxScopes == 3   \* scope objects built in one run (the root scope included)
MaxPush == 2     \* env.Push calls after construction in one run

-----------------------------------------------------------------------------
(* String constants.                                                       *)

SP == " "
DQ == "\""
SQ == "'"

s_mercator == <<"m", "e", "r", "c", "a", "t", "o", "r">>
s_binance == <<"b", "i", "n", "a", "n", "c", "e">>
s_use == <<"u", "s", "e">>
s_exit == <<"e", "x", "i", "t">>
s_quit == <<"q", "u", "i", "t">>
s_help == <<"h", "e", "l", "p">>
s_rate_limits == <<"r", "a", "t", "e", "-", "l", "i", "m", "i", "t", "s">>
s_server_time == <<"s", "e", "r", "v", "e", "r", "-", "t", "i", "m", "e">>
s_account_info == <<"a", "c", "c", "o", "u", "n", "t", "-", "i", "n", "f", "o">>
s_account_balance == <<"a", "c", "c", "o", "u", "n", "t", "-", "b", "a", "l", "a", "n", "c", "e">>
s_symbol_price == <<"s", "y", "m", "b", "o", "l", "-", "p", "r", "i", "c", "e">>
s_asset_price == <<"a", "s", "s", "e", "t", "-", "p", "r", "i", "c", "e">>
s_compare == <<"c", "o", "m", "p", "a", "r", "e">>
s_depth == <<"d", "e", "p", "t", "h">>
s_shares == <<"s", "h", "a", "r", "e", "s">>
s_risk == <<"r", "i", "s", "k">>
s_convert == <<"c", "o", "n", "v", "e", "r", "t">>
s_ETHBTC == <<"E", "T", "H", "B", "T", "C">>
s_ETHUSDT == <<"E", "T", "H", "U", "S", "D", "T">>
s_ETH == <<"E", "T", "H">>
s_BTC == <<"B", "T", "C">>
s_USDT == <<"U", "S", "D", "T">>
s_BTCUSDT == <<"B", "T", "C", "U", "S", "D", "T">>
s_XYZ == <<"X", "Y", "Z">>
s_foo == <<"f", "o", "o">>
s_acc == <<"a", "c", "c">>
s_bin == <<"b", "i", "n">>
s_dep == <<"d", "e", "p">>
s_account_b == <<"a", "c", "c", "o", "u", "n", "t", "-", "b">>

-----------------------------------------------------------------------------
(* The strings package, as far as the shell uses it.                       *)

Lower == <<"a", "b", "c", "d", "e", "f", "g", "h", "i", "j", "k", "l", "m",
           "n", "o", "p", "q", "r", "s", "t", "u", "v", "w", "x", "y", "z">>
Upper == <<"A", "B", "C", "D", "E", "F", "G", "H", "I", "J", "K", "L", "M",
           "N", "O", "P", "Q", "R", "S", "T", "U", "V", "W", "X", "Y", "Z">>

\* Byte order of the characters of the alphabet (ASCII).
ByteOrder == <<SP, DQ, SQ, "-">> \o Upper \o Lower

Alphabet == {ByteOrder[i] : i \in 1..Len(ByteOrder)}

OrdTable == [c \in Alphabet |-> CHOOSE i \in 1..Len(ByteOrder) : ByteOrder[i] = c]

Ord(c) == OrdTable[c]

UpperTable ==
    [c \in Alphabet |->
        IF \E i \in 1..Len(Lower) : Lower[i] = c
        THEN Upper[CHOOSE i \in 1..Len(Lower) : Lower[i] = c]
        ELSE c]

ToUpperChar(c) == UpperTable[c]

ToUpper(s) == [i \in 1..Len(s) |-> ToUpperChar(s[i])]

HasPrefix(s, prefix) ==
    /\ Len(s) >= Len(prefix)
    /\ SubSeq(s, 1, Len(prefix)) = prefix

IsSpace(c) == c = SP

RECURSIVE TrimLeft(_)
TrimLeft(s) == IF s # <<>> /\ IsSpace(s[1]) THEN TrimLeft(Tail(s)) ELSE s

RECURSIVE TrimRight(_)
TrimRight(s) ==
    IF s # <<>> /\ IsSpace(s[Len(s)])
    THEN TrimRight(SubSeq(s, 1, Len(s) - 1))
    ELSE s

TrimSpace(s) == TrimRight(TrimLeft(s))

\* s < t in byte order, as sort.Sort(commandSorterByName) compares names.
RECURSIVE LessStr(_, _)
LessStr(s, t) ==
    IF t = <<>> THEN FALSE
    ELSE IF s = <<>> THEN TRUE
    ELSE IF s[1] # t[1] THEN Ord(s[1]) < Ord(t[1])
    ELSE LessStr(Tail(s), Tail(t))

-----------------------------------------------------------------------------
(* shellquote.Split: words separated by blanks; a quoted stretch belongs   *)
(* to the word around it and may hold blanks; a quote left open is an      *)
(* error.                                                                  *)

splitChars == {SP}

NoErr == [text |-> "", arg |-> <<>>]
Err(text, arg) == [text |-> text, arg |-> arg]

\* One word starting at input[i]. next is the index of the remainder.
RECURSIVE splitWord(_, _, _, _)
splitWord(input, i, mode, buf) ==
    IF mode = "raw" THEN
        IF i > Len(input) THEN [word |-> buf, next |-> i, err |-> NoErr]
        ELSE IF input[i] = SQ THEN splitWord(input, i + 1, "single", buf)
        ELSE IF input[i] = DQ THEN splitWord(input, i + 1, "double", buf)
        ELSE IF input[i] \in splitChars
             THEN [word |-> buf, next |-> i + 1, err |-> NoErr]
        ELSE splitWord(input, i + 1, "raw", Append(buf, input[i]))
    ELSE IF mode = "single" THEN
        IF i > Len(input)
        THEN [word |-> <<>>, next |-> i,
              err |-> Err("Unterminated single-quoted string", <<>>)]
        ELSE IF input[i] = SQ THEN splitWord(input, i + 1, "raw", buf)
        ELSE splitWord(input, i + 1, "single", Append(buf, input[i]))
    ELSE
        IF i > Len(input)
        THEN [word |-> <<>>, next |-> i,
              err |-> Err("Unterminated double-quoted string", <<>>)]
        ELSE IF input[i] = DQ THEN splitWord(input, i + 1, "raw", buf)
        ELSE splitWord(input, i + 1, "double", Append(buf, input[i]))

RECURSIVE SplitFrom(_, _, _)
SplitFrom(input, i, words) ==
    IF i > Len(input) THEN [words |-> words, err |-> NoErr]
    ELSE IF input[i] \in splitChars THEN SplitFrom(input, i + 1, words)
    ELSE LET w == splitWord(input, i, "raw", <<>>)
         IN  IF w.err # NoErr THEN [words |-> words, err |-> w.err]
             ELSE SplitFrom(input, w.next, Append(words, w.word))

\* Mutant of Split: a quote left open is no error.
Split_lenient(input) == [words |-> SplitFrom(input, 1, <<>>).words, err |-> NoErr]

Split(input) == SplitFrom(input, 1, <<>>)

-----------------------------------------------------------------------------
(* The exchange's symbol listing, as NewBinanceExchangeScope receives it.  *)

Symbols == << [Symbol |-> s_ETHBTC, BaseAsset |-> s_ETH, QuoteAsset |-> s_BTC,
                BaseAssetPrecision |-> 8],
              [Symbol |-> s_ETHUSDT, BaseAsset |-> s_ETH, QuoteAsset |-> s_USDT,
                BaseAssetPrecision |-> 5] >>

\* getSymbolList on a scope whose listing is symbols:
\* make([]string, len(s.symbols)) followed by one append per symbol.
getSymbolListOf(symbols) ==
    [i \in 1..Len(symbols) |-> <<>>] \o [i \in 1..Len(symbols) |-> symbols[i].Symbol]

getSymbolList == getSymbolListOf(Symbols)

\* The keys of the base-asset map: the base assets of the listing.
getBaseAssetMap == {Symbols[i].BaseAsset : i \in 1..Len(Symbols)}

\* make([]string, len(s.symbols)) followed by one append per map key. The
\* listing has one base asset, so the map's iteration order is immaterial.
getBaseAssetList ==
    [i \in 1..Len(Symbols) |-> <<>>] \o <<CHOOSE k \in getBaseAssetMap : TRUE>>

-----------------------------------------------------------------------------
(* Command nodes (cobra.Command): Use, Short, the arity rule Args, the     *)
(* fixed ValidArgs, the declared Flags, the run body Run ("nil" when the   *)
(* command has none) and the child Commands in declaration order.          *)

NoRule == [kind |-> "nil", n |-> 0]
ExactArgs(n) == [kind |-> "exact", n |-> n]
MinimumNArgs(n) == [kind |-> "min", n |-> n]
MaximumNArgs(n) == [kind |-> "max", n |-> n]

Command(use, short, args, validArgs, flags, run, commands) ==
    [Use |-> use, Short |-> short, Args |-> args, ValidArgs |-> validArgs,
     Flags |-> flags, Run |-> run, Commands |-> commands]

Leaf(use, short, args, validArgs, flags, run) ==
    Command(use, short, args, validArgs, flags, run, <<>>)

exitCommand ==
    Leaf(s_exit, "Exits the current scope. Exits CLI if at top-level scope.",
         NoRule, <<>>, <<>>, "exit")

quitCommand ==
    Leaf(s_quit, "Fully exits the Mercator CLI regardless of scope",
         NoRule, <<>>, <<>>, "quit")

\* The help command cobra adds to a root that has subcommands, on Execute.
helpCommand == Leaf(s_help, "Help about any command", NoRule, <<>>, <<>>, "help")

binanceScopeCommand ==
    Leaf(s_binance, "Access Binance exchange information", NoRule, <<>>, <<>>, "binance")

useCommand ==
    Command(s_use, "Use changes the scope for the environment", NoRule, <<>>, <<>>,
            "use", <<binanceScopeCommand>>)

\* NewRootScope: the root scope's command tree.
RootCommand ==
    Command(s_mercator, "A command line tool for managing monetary assets",
            NoRule, <<>>, <<>>, "nil", <<useCommand, exitCommand, quitCommand>>)

rateCommand ==
    Leaf(s_rate_limits, "API limits for the exchange", NoRule, <<>>, <<>>, "rate-limits")

timeCommand ==
    Leaf(s_server_time, "Server time and timezone", NoRule, <<>>, <<>>, "server-time")

accountInfoCommand ==
    Leaf(s_account_info, "Show user account info", NoRule, <<>>, <<>>, "account-info")

accountBalanceCommand ==
    Leaf(s_account_balance, "Show user account balances", NoRule, <<>>, <<>>,
         "account-balance")

priceCommand ==
    Leaf(s_symbol_price, "Get the current price for the given symbols",
         MinimumNArgs(1), getSymbolList, <<>>, "symbol-price")

\* asset-price as the cobra revision declares it.
assetPricesCommand ==
    Leaf(s_asset_price, "Get the all current prices for an asset",
         MaximumNArgs(1), getBaseAssetList, <<>>, "asset-price")

\* asset-price as the console revision declares it: no arity rule, and a run
\* body that returns its failure.
assetPricesCommandConsole ==
    Leaf(s_asset_price, "Get the all current prices for an asset",
         NoRule, getBaseAssetList, <<>>, "asset-price/console")

comparePriceCommand ==
    Leaf(s_compare,
         "Compare price from one asset to another through an intermediary market",
         ExactArgs(3), getSymbolList, <<>>, "compare")

\* depth as the cobra revision declares it.
depthCommand ==
    Leaf(s_depth, "Show symbol depth", ExactArgs(1), getSymbolList, <<>>, "depth")

\* depth as the console revision declares it: no arity rule.
depthCommandConsole ==
    Leaf(s_depth, "Show symbol depth", NoRule, getSymbolList, <<>>, "depth/console")

s_inv == <<"i", "n", "v">>
s_price == <<"p", "r", "i", "c", "e">>
s_entry == <<"e", "n", "t", "r", "y">>
s_stop == <<"s", "t", "o", "p">>
s_ratio == <<"r", "a", "t", "i", "o">>
s_amount == <<"a", "m", "o", "u", "n", "t">>

\* A flag of a command (pflag.Flag): its variable's value, whether the command
\* requires it (MarkFlagRequired) and whether a parse has set it (Changed).
Flag(name, usage, value, required) ==
    [Name |-> name, Usage |-> usage, Value |-> value, Required |-> required,
     Changed |-> FALSE]

sharesCommand ==
    Leaf(s_shares, "Calculate shares if bought at a certain price", NoRule,
         getSymbolList,
         <<Flag(s_inv, "Investment amount", 0, TRUE),
           Flag(s_price, "Buy price", 1, FALSE)>>, "shares")

riskCommand ==
    Leaf(s_risk, "Calculate risk if bought and sold at certain prices", ExactArgs(1),
         getSymbolList,
         <<Flag(s_inv, "Investment amount", 0, TRUE),
           Flag(s_entry, "Entry price", 1, TRUE),
           Flag(s_stop, "Stop price", 1, TRUE),
           Flag(s_ratio, "Risk/reward ratio", 2, FALSE)>>, "risk")

convertCommand ==
    Leaf(s_convert, "Convert returns the value of an asset for the given symbols",
         MinimumNArgs(1), getSymbolList, <<Flag(s_amount, "Amount of asset", 1, TRUE)>>,
         "convert")

Revisions == {"cobra", "console"}

\* Mutant of BinanceCommand: the Binance scope registers the commands of the
\* root scope, use among them.
BinanceCommand_asRoot(r) ==
    Command(s_binance, "Access exchange info", NoRule, <<>>, <<>>, "nil",
            <<useCommand, exitCommand, quitCommand>>)

\* NewBinanceExchangeScope: the Binance scope's command tree. r selects the
\* revision of the depth and asset-price definitions it registers.
BinanceCommand(r) ==
    Command(s_binance, "Access exchange info", NoRule, <<>>, <<>>, "nil",
            << rateCommand, timeCommand, accountInfoCommand, accountBalanceCommand,
               priceCommand,
               IF r = "cobra" THEN assetPricesCommand ELSE assetPricesCommandConsole,
               comparePriceCommand,
               IF r = "cobra" THEN depthCommand ELSE depthCommandConsole,
               sharesCommand, riskCommand, convertCommand,
               exitCommand, quitCommand >>)

-----------------------------------------------------------------------------
(* Scope objects. Executing a scope's root command changes the command     *)
(* tree it holds: cobra adds the help command to a root that has           *)
(* subcommands on the first Execute, and a flag a parse has set stays set  *)
(* with its value. (The help flag cobra adds to each executed command is   *)
(* outside the model.) set holds <<command, flag, value>> for each flag    *)
(* set so far. A run body that assigns to a variable a flag is bound to    *)
(* changes the value the flag holds and leaves its Changed mark alone:     *)
(* vars holds <<command, flag, value>> for each such variable whose last   *)
(* assignment was made by a body.                                          *)

NewObject(kind) == [kind |-> kind, helpCmd |-> FALSE, set |-> {}, vars |-> {}]

\* The flags of a command after the flags in set were parsed into them.
WithFlagsSet(c, set) ==
    [c EXCEPT !.Flags =
        [i \in 1..Len(c.Flags) |->
            LET hit == {x \in set : x[1] = c.Use /\ x[2] = c.Flags[i].Name}
            IN  IF hit = {} THEN c.Flags[i]
                ELSE [c.Flags[i] EXCEPT !.Value = (CHOOSE x \in hit : TRUE)[3],
                                        !.Changed = TRUE]]]

\* The flags of a command whose bound variables hold what the bodies in
\* vars assigned.
WithVarsWritten(c, written) ==
    [c EXCEPT !.Flags =
        [i \in 1..Len(c.Flags) |->
            LET hit == {x \in written : x[1] = c.Use /\ x[2] = c.Flags[i].Name}
            IN  IF hit = {} THEN c.Flags[i]
                ELSE [c.Flags[i] EXCEPT !.Value = (CHOOSE x \in hit : TRUE)[3]]]]

\* Mutant of Retained: every invocation starts from the declared flags.
Retained_fresh(c, obj) == c

\* A command of the tree as the object holds it: its flags keep what the
\* parses and the bodies of earlier invocations left in them.
Retained(c, obj) ==
    IF c.Flags = <<>> \/ (obj.set = {} /\ obj.vars = {}) THEN c
    ELSE WithVarsWritten(WithFlagsSet(c, obj.set), obj.vars)

\* GetScopeMeta().Prefix
Prefix(obj) == IF obj.kind = "root" THEN s_mercator ELSE s_binance

\* The root command as declared at construction.
Declared(obj, r) == IF obj.kind = "root" THEN RootCommand ELSE BinanceCommand(r)

\* GetCommand(): the command tree the object holds now.
GetCommand(obj, r) ==
    [Declared(obj, r) EXCEPT
        !.Commands = [i \in 1..Len(@) |-> Retained(@[i], obj)]
                     \o (IF obj.helpCmd THEN <<helpCommand>> ELSE <<>>)]

\* Mutant of SortByName: the commands stay as declared.
SortByName_declared(cs) == cs

\* sort.Sort(commandSorterByName(c.commands)): insertion of each command
\* before the first one whose name is greater.
RECURSIVE SortByName(_)
SortByName(cs) ==
    IF cs = <<>> THEN <<>>
    ELSE LET rest == SortByName(SubSeq(cs, 1, Len(cs) - 1))
             x == cs[Len(cs)]
             k == Cardinality({i \in 1..Len(rest) : ~LessStr(x.Use, rest[i].Use)})
         IN  SubSeq(rest, 1, k) \o <<x>> \o SubSeq(rest, k + 1, Len(rest))

\* c.Commands(): the children, sorted by name.
Commands(c) == SortByName(c.Commands)

\* c.Flags().VisitAll: the flags in name order.
RECURSIVE SortFlags(_)
SortFlags(fs) ==
    IF fs = <<>> THEN <<>>
    ELSE LET rest == SortFlags(SubSeq(fs, 1, Len(fs) - 1))
             x == fs[Len(fs)]
             k == Cardinality({i \in 1..Len(rest) : ~LessStr(x.Name, rest[i].Name)})
         IN  SubSeq(rest, 1, k) \o <<x>> \o SubSeq(rest, k + 1, Len(rest))

-----------------------------------------------------------------------------
(* cobra: resolving the arguments to a command, validating, running.       *)

Msg(ch, text, arg) == [ch |-> ch, text |-> text, arg |-> arg]

\* Walk down the tree while the next argument names a child.
RECURSIVE innerfind(_, _, _)
innerfind(c, path, args) ==
    IF args = <<>> THEN [cmd |-> c, path |-> path, args |-> args]
    ELSE LET hit == {i \in 1..Len(c.Commands) : c.Commands[i].Use = args[1]}
         IN  IF hit = {} THEN [cmd |-> c, path |-> path, args |-> args]
             ELSE LET child == c.Commands[CHOOSE i \in hit : TRUE]
                  IN  innerfind(child, Append(path, child.Use), Tail(args))

\* Mutant of legacyArgsValidation: any first argument is taken.
legacyArgsValidation_lax(f) == NoErr

\* A root command with subcommands takes no other first argument.
legacyArgsValidation(f) ==
    IF f.cmd.Commands = <<>> THEN NoErr
    ELSE IF f.path = <<>> /\ f.args # <<>>
         THEN Err("unknown command for root", f.args[1])
    ELSE NoErr

Find(root, args) ==
    LET f == innerfind(root, <<>>, args)
    IN  [cmd |-> f.cmd, path |-> f.path, args |-> f.args,
         err |-> IF f.cmd.Args = NoRule THEN legacyArgsValidation(f) ELSE NoErr]

ValidateArgs(c, args) ==
    CASE c.Args.kind = "exact" /\ Len(args) # c.Args.n ->
            Err("accepts n arg(s), received m", <<>>)
      [] c.Args.kind = "min" /\ Len(args) < c.Args.n ->
            Err("requires at least n arg(s), only received m", <<>>)
      [] c.Args.kind = "max" /\ Len(args) > c.Args.n ->
            Err("accepts at most n arg(s), received m", <<>>)
      [] OTHER -> NoErr

\* strconv.ParseFloat on the numerals the lines use: decimal digits.
Digits == <<"0", "1", "2", "3", "4", "5", "6", "7", "8", "9">>

IsNumeral(s) ==
    /\ s # <<>>
    /\ \A i \in 1..Len(s) : \E d \in 1..Len(Digits) : Digits[d] = s[i]

RECURSIVE ParseFloat(_)
ParseFloat(s) ==
    IF s = <<>> THEN 0
    ELSE 10 * ParseFloat(SubSeq(s, 1, Len(s) - 1))
         + (CHOOSE d \in 1..Len(Digits) : Digits[d] = s[Len(s)]) - 1

\* pflag's parse of the arguments of a command: --name value sets a declared
\* flag, any other word is positional. set holds <<name, value>> for each
\* flag the parse set, also when a later word fails it. (The forms
\* --name=value and -n are not used by the lines of the model.)
RECURSIVE parseArgs(_, _, _, _)
parseArgs(flags, args, positional, set) ==
    LET res(err) == [args |-> positional, set |-> set, err |-> err]
    IN  IF args = <<>> THEN res(NoErr)
        ELSE IF HasPrefix(args[1], <<"-", "-">>) /\ Len(args[1]) > 2
        THEN LET name == SubSeq(args[1], 3, Len(args[1]))
             IN  IF ~\E i \in 1..Len(flags) : flags[i].Name = name
                 THEN res(Err("unknown flag: --", name))
                 ELSE IF Len(args) < 2
                 THEN res(Err("flag needs an argument: --", name))
                 ELSE IF ~IsNumeral(args[2])
                 THEN res(Err("invalid argument for flag --", name))
                 ELSE parseArgs(flags, SubSeq(args, 3, Len(args)), positional,
                                {x \in set : x[1] # name}
                                    \cup {<<name, ParseFloat(args[2])>>})
        ELSE parseArgs(flags, Tail(args), Append(positional, args[1]), set)

ParseFlags(c, args) == parseArgs(c.Flags, args, <<>>, {})

\* The flags of a command once a parse has set the flags in set.
FlagsAfter(c, set) ==
    [i \in 1..Len(c.Flags) |->
        LET hit == {x \in set : x[1] = c.Flags[i].Name}
        IN  IF hit = {} THEN c.Flags[i]
            ELSE [c.Flags[i] EXCEPT !.Value = (CHOOSE x \in hit : TRUE)[2],
                                    !.Changed = TRUE]]

\* validateRequiredFlags: every required flag has Changed set, by the parse
\* of this invocation or of an earlier one.
validateRequiredFlags(flags) ==
    IF \E i \in 1..Len(flags) : flags[i].Required /\ ~flags[i].Changed
    THEN Err("required flag(s) not set", <<>>)
    ELSE NoErr

-----------------------------------------------------------------------------
(* Run bodies. A body yields the lines it prints, the error it returns     *)
(* (NoErr when it returns none) and what it does to the environment:       *)
(* "none", "push" (env.Push of the scope it built), "pop" (env.Pop()),     *)
(* "exit" (os.Exit(0)) or "panic" (an index out of range).                 *)
(* up says whether the body's call to the exchange succeeds.               *)

Body(out, err, effect) == [out |-> out, err |-> err, effect |-> effect]

UpstreamErr == Err("upstream failure", <<>>)

\* NewBinanceExchangeScope: fails without credentials or without a listing.
NewBinanceExchangeScope(haveCreds, up) ==
    IF ~haveCreds
    THEN Err("Binance scope requires env variables: BINANCE_API_KEY and BINANCE_API_SECRET", <<>>)
    ELSE IF ~up THEN Err("failed to list symbols", <<>>)
    ELSE NoErr

\* use: the scope named is none of the subcommands.
useRun(args) == Body(<<Msg("error", "unknown scope", <<>>)>>, NoErr, "none")

\* Mutant of binanceRun: the scope is pushed whether or not it was built.
binanceRun_pushAnyway(haveCreds, up) ==
    Body(IF NewBinanceExchangeScope(haveCreds, up) # NoErr
         THEN <<Msg("error",
                    "Binance scope requires env variables: BINANCE_API_KEY and BINANCE_API_SECRET",
                    <<>>)>>
         ELSE <<>>, NoErr, "push")

\* use binance: build the scope and push it, or report and return.
binanceRun(haveCreds, up) ==
    IF NewBinanceExchangeScope(haveCreds, up) # NoErr
    THEN Body(<<Msg("error",
                    "Binance scope requires env variables: BINANCE_API_KEY and BINANCE_API_SECRET",
                    <<>>)>>, NoErr, "none")
    ELSE Body(<<>>, NoErr, "push")

exitRun == Body(<<>>, NoErr, "pop")

quitRun == Body(<<>>, NoErr, "exit")

helpRun == Body(<<Msg("stdout", "help", <<>>)>>, NoErr, "none")

\* depth, cobra revision: reads args[0], prints the failure itself.
depthRun(args, up) ==
    IF Len(args) < 1 THEN Body(<<>>, NoErr, "panic")
    ELSE IF ~up THEN Body(<<Msg("error", UpstreamErr.text, <<>>)>>, NoErr, "none")
    ELSE Body(<<Msg("stdout", "Order Book", args[1])>>, NoErr, "none")

\* depth, console revision: reads args[0], returns the failure.
depthRunConsole(args, up) ==
    IF Len(args) < 1 THEN Body(<<>>, NoErr, "panic")
    ELSE IF ~up THEN Body(<<>>, UpstreamErr, "none")
    ELSE Body(<<Msg("stdout", "Order Book", args[1])>>, NoErr, "none")

\* getCurrentPrices: reports a failure itself and returns it as well.
getCurrentPrices(up) ==
    IF up THEN [out |-> <<>>, err |-> NoErr]
    ELSE [out |-> <<Msg("error", UpstreamErr.text, <<>>)>>, err |-> UpstreamErr]

\* Mutant of assetPriceRun: the unknown asset is not named in the message.
assetPriceRun_bare(args, up) ==
    IF Len(args) # 1
    THEN Body(<<Msg("error", "one asset must be given", <<>>)>>, NoErr, "none")
    ELSE LET p == getCurrentPrices(up)
         IN  IF p.err # NoErr
             THEN Body(p.out \o <<Msg("error", p.err.text, p.err.arg)>>, NoErr, "none")
             ELSE IF args[1] \notin getBaseAssetMap
             THEN Body(<<Msg("error", "unknown symbol", <<>>)>>, NoErr, "none")
             ELSE Body(<<Msg("stdout", "prices of", args[1])>>, NoErr, "none")

\* asset-price, cobra revision.
assetPriceRun(args, up) ==
    IF Len(args) # 1
    THEN Body(<<Msg("error", "one asset must be given", <<>>)>>, NoErr, "none")
    ELSE LET p == getCurrentPrices(up)
         IN  IF p.err # NoErr
             THEN Body(p.out \o <<Msg("error", p.err.text, p.err.arg)>>, NoErr, "none")
             ELSE IF args[1] \notin getBaseAssetMap
             THEN Body(<<Msg("error", "unknown symbol: ", args[1])>>, NoErr, "none")
             ELSE Body(<<Msg("stdout", "prices of", args[1])>>, NoErr, "none")

\* asset-price, console revision.
assetPriceRunConsole(args, up) ==
    IF Len(args) # 1
    THEN Body(<<>>, Err("one asset must be given", <<>>), "none")
    ELSE LET p == getCurrentPrices(up)
         IN  IF p.err # NoErr THEN Body(p.out, p.err, "none")
             ELSE IF args[1] \notin getBaseAssetMap
             THEN Body(<<>>, Err("unknown symbol: ", args[1]), "none")
             ELSE Body(<<Msg("stdout", "prices of", args[1])>>, NoErr, "none")

\* symbol-price: the price of each symbol named, once the prices are listed.
priceRun(args, up) ==
    LET p == getCurrentPrices(up)
    IN  IF p.err # NoErr
        THEN Body(p.out \o <<Msg("error", p.err.text, p.err.arg)>>, NoErr, "none")
        ELSE Body([i \in 1..Len(args) |->
                      IF \E k \in 1..Len(Symbols) : Symbols[k].Symbol = args[i]
                      THEN Msg("stdout", "price of", args[i])
                      ELSE Msg("stdout", "unknown symbol", args[i])],
                  NoErr, "none")

\* getSymbolInfo: the listing's entry for a symbol.
getSymbolInfo(symbol) ==
    IF \E k \in 1..Len(Symbols) : Symbols[k].Symbol = symbol
    THEN NoErr
    ELSE Err("unknown symbol: ", symbol)

FlagValue(flags, name) ==
    flags[CHOOSE i \in 1..Len(flags) : flags[i].Name = name].Value

\* risk: reads the variables of its flags.
riskRun(args, flags) ==
    LET entry == FlagValue(flags, s_entry)
        stop == FlagValue(flags, s_stop)
        ratio == FlagValue(flags, s_ratio)
        fail(text) == Body(<<Msg("error", text, <<>>)>>, NoErr, "none")
    IN  IF entry <= 0 THEN fail("entry price is required")
        ELSE IF stop <= 0 THEN fail("stop price is required")
        ELSE IF stop >= entry THEN fail("stop price must be less than entry price")
        ELSE IF ratio <= 0 THEN fail("risk/reward ratio must be greater than 0")
        ELSE LET info == getSymbolInfo(ToUpper(args[1]))
             IN  IF info # NoErr
                 THEN Body(<<Msg("error", info.text, info.arg)>>, NoErr, "none")
                 ELSE Body(<<Msg("stdout", "Shares", args[1]),
                             Msg("stdout", "Risk", args[1]),
                             Msg("stdout", "Earnings", args[1])>>, NoErr, "none")

\* The ticker of the exchange: the price of each symbol, as the text the
\* exchange sends.
TickerPrices == (s_ETHBTC :> <<"3">>) @@ (s_ETHUSDT :> <<"6">>) @@ (s_BTCUSDT :> <<"2">>)

\* float64 division of two whole numbers, kept exact as a reduced fraction.
RECURSIVE GCD(_, _)
GCD(a, b) == IF b = 0 THEN a ELSE GCD(b, a % b)
Ratio(a, b) == [num |-> a \div GCD(a, b), den |-> b \div GCD(a, b)]

\* shares: reads the variables inv and price of its flags and assigns price
\* when a symbol is given. wrote holds <<flag, value>> for that assignment.
sharesRun(args, flags, prices, up) ==
    LET inv == FlagValue(flags, s_inv)
        flagPrice == FlagValue(flags, s_price)
        res(out, wrote) == [out |-> out, err |-> NoErr, effect |-> "none",
                            wrote |-> wrote]
        fail(text, wrote) == res(<<Msg("error", text, <<>>)>>, wrote)
    IN  IF flagPrice = 0 /\ Len(args) = 0
        THEN fail("either price or symbol is required", {})
        ELSE IF Len(args) > 0 /\ ~up
        THEN fail("either price or symbol is required", {})
        ELSE IF Len(args) > 0 /\ ToUpper(args[1]) \notin DOMAIN prices
        THEN fail("unknown symbol", {})
        ELSE IF Len(args) > 0 /\ ~IsNumeral(prices[ToUpper(args[1])])
        THEN fail("could not parse current price", {<<s_price, 0>>})
        ELSE LET price == IF Len(args) > 0 THEN ParseFloat(prices[ToUpper(args[1])])
                          ELSE flagPrice
                 wrote == IF Len(args) > 0 THEN {<<s_price, price>>} ELSE {}
                 warn == IF Len(args) > 1
                         THEN <<Msg("warn", "more than one symbol provided. using",
                                    args[1])>>
                         ELSE <<>>
             IN  IF price = 0 THEN res(warn \o <<Msg("error", "current price is 0.0", <<>>)>>,
                                       wrote)
                 ELSE IF price < 0
                 THEN res(warn \o <<Msg("error", "price must be positive", <<>>)>>, wrote)
                 ELSE IF Len(args) > 0 /\ getSymbolInfo(ToUpper(args[1])) # NoErr
                 THEN res(warn \o <<Msg("error", "unknown symbol: ", ToUpper(args[1]))>>,
                          wrote)
                 ELSE res(warn \o <<Msg("stdout", "Shares",
                                        [inv |-> inv, shares |-> Ratio(inv, price),
                                         price |-> price])>>, wrote)

\* The precision formatBasePrice prints an amount of the symbol with.
BaseAssetPrecision(symbol) ==
    Symbols[CHOOSE k \in 1..Len(Symbols) : Symbols[k].Symbol = symbol].BaseAssetPrecision

\* convert: one line for each symbol given. The price and the symbol info
\* are looked up under args[0] in every round of the loop; arg names the
\* line.
convertRun(args, flags, prices, up) ==
    LET amount == FlagValue(flags, s_amount)
        first == ToUpper(args[1])
        line(i) ==
            IF first \notin DOMAIN prices THEN Msg("error", "unknown symbol", <<>>)
            ELSE IF ~IsNumeral(prices[first])
            THEN Msg("error", "could not parse current price of ", ToUpper(args[i]))
            ELSE IF getSymbolInfo(first) # NoErr
            THEN Msg("error", "unknown symbol: ", first)
            ELSE Msg("stdout", "value",
                     [symbol |-> ToUpper(args[i]),
                      value |-> amount * ParseFloat(prices[first]),
                      precision |-> BaseAssetPrecision(first)])
    IN  IF ~up THEN Body(<<Msg("error", "failed toget current prices", <<>>)>>,
                         NoErr, "none")
        ELSE Body([i \in 1..Len(args) |-> line(i)], NoErr, "none")

\* Mutant of NoOpportunity: a difference of exactly 1% is no opportunity.
NoOpportunity_upTo(diff, mp) == mp > 0 /\ diff * 100 <= mp

\* compare's test diff/mp*100 < 1.0 on float64 values that are whole and not
\* negative: with mp = 0 the quotient is +Inf or NaN, which is not below 1.
NoOpportunity(diff, mp) == mp > 0 /\ diff * 100 < mp

\* math.Abs of a difference
Abs(x) == IF x < 0 THEN 0 - x ELSE x

\* compare A B C: the market price of A against the price of B converted
\* through C, and the suggestion that follows from the difference.
compareRun(args, prices, up) ==
    LET error(text, arg) == <<Msg("error", text, arg)>>
        shown(label, price) == <<Msg("stdout", "price", [label |-> label, price |-> price])>>
        unknown(sym) == <<Msg("stdout", "unknown symbol", sym)>>
        done(out) == Body(out, NoErr, "none")
    IN  IF Len(args) # 3 THEN done(error("three symbols must be given", <<>>))
        ELSE IF ~up THEN done(error(UpstreamErr.text, <<>>))
        ELSE IF args[1] \notin DOMAIN prices THEN done(unknown(args[1]))
        ELSE LET marketPrice == prices[args[1]]
                 o1 == shown(args[2], marketPrice)
             IN  IF ~IsNumeral(marketPrice)
                 THEN done(o1 \o error("could not convert price: ", args[2]))
                 ELSE IF args[2] \notin DOMAIN prices THEN done(o1 \o unknown(args[2]))
                 ELSE IF args[3] \notin DOMAIN prices
                 THEN done(o1 \o shown(args[2], prices[args[2]]) \o unknown(args[3]))
                 ELSE LET p1 == prices[args[2]]
                          p2 == prices[args[3]]
                          o3 == o1 \o shown(args[2], p1) \o shown(args[3], p2)
                      IN  IF ~IsNumeral(p1)
                          THEN done(o3 \o error("could not convert price: ", args[2]))
                          ELSE IF ~IsNumeral(p2)
                          THEN done(o3 \o error("could not convert price: ", args[3]))
                          ELSE IF ParseFloat(p2) <= 0
                          THEN done(o3 \o error("has has went to 0", args[3]))
                          ELSE LET mp == ParseFloat(marketPrice)
                                   conv == ParseFloat(p1) * ParseFloat(p2)
                                   diff == Abs(conv - mp)
                               IN  done(o3 \o
                                     <<Msg("stdout", "Converted Price", conv),
                                       Msg("stdout", "Difference", diff),
                                       Msg("stdout", "Suggestion:", <<>>),
                                       IF NoOpportunity(diff, mp)
                                       THEN Msg("stdout", "no opportunity", <<>>)
                                       ELSE IF conv < mp
                                       THEN Msg("stdout", "buy and sell",
                                                [buy |-> args[2], sell |-> args[1]])
                                       ELSE Msg("stdout", "buy and sell",
                                                [buy |-> args[1], sell |-> args[2]])>>)

\* padLeft: pad is put in front until the string is longer than length,
\* then the first length characters are returned.
RECURSIVE padLeft(_, _, _)
padLeft(str, pad, length) ==
    LET padded == pad \o str
    IN  IF Len(padded) > length THEN SubSeq(padded, 1, length)
        ELSE padLeft(padded, pad, length)

\* The bodies the model runs; the lines of the model name no other command.
Modelled == {"use", "binance", "exit", "quit", "help", "depth", "depth/console",
             "asset-price", "asset-price/console", "symbol-price", "risk",
             "shares", "convert", "compare"}

Run(run, args, haveCreds, up) ==
    CASE run = "use" -> useRun(args)
      [] run = "binance" -> binanceRun(haveCreds, up)
      [] run = "exit" -> exitRun
      [] run = "quit" -> quitRun
      [] run = "help" -> helpRun
      [] run = "depth" -> depthRun(args, up)
      [] run = "depth/console" -> depthRunConsole(args, up)
      [] run = "asset-price" -> assetPriceRun(args, up)
      [] run = "asset-price/console" -> assetPriceRunConsole(args, up)
      [] run = "symbol-price" -> priceRun(args, up)
      [] run = "compare" -> compareRun(args, TickerPrices, up)
      [] OTHER -> Body(<<>>, NoErr, "unmodelled")

\* cmd.Execute() on a scope's root command with the arguments set.
\* ran is the run body executed ("none" when none was), path the command
\* resolved, out what cobra and the body printed, err what Execute returns,
\* set the flags the parse set and wrote the flag variables the body
\* assigned, both as <<command, flag, value>>.
Execute(root, args, haveCreds, up) ==
    LET f == Find(root, args)
        p == ParseFlags(f.cmd, f.args)
        flags == FlagsAfter(f.cmd, p.set)
        res(out, err, ran, effect, set) ==
            [out |-> out, err |-> err, ran |-> ran, effect |-> effect,
             path |-> f.path, set |-> {<<f.cmd.Use, x[1], x[2]>> : x \in set},
             wrote |-> {}]
        failed(e) == <<Msg("stderr", "Error:", e.arg), Msg("stderr", "usage", <<>>)>>
    IN  IF f.err # NoErr THEN res(failed(f.err), f.err, "none", "none", {})
        ELSE IF p.err # NoErr THEN res(failed(p.err), p.err, "none", "none", p.set)
        ELSE IF f.cmd.Run = "nil"
             THEN res(<<Msg("stdout", "help", <<>>)>>, NoErr, "none", "none", p.set)
        ELSE LET v == ValidateArgs(f.cmd, p.args)
                 q == validateRequiredFlags(flags)
             IN  IF v # NoErr THEN res(failed(v), v, "none", "none", p.set)
                 ELSE IF q # NoErr THEN res(failed(q), q, "none", "none", p.set)
                 ELSE IF f.cmd.Run = "shares"
                 THEN LET b == sharesRun(p.args, flags, TickerPrices, up)
                      IN  [res(b.out, b.err, f.cmd.Run, b.effect, p.set) EXCEPT
                              !.wrote = {<<f.cmd.Use, x[1], x[2]>> : x \in b.wrote}]
                 ELSE LET b == IF f.cmd.Run = "risk" THEN riskRun(p.args, flags)
                               ELSE IF f.cmd.Run = "convert"
                               THEN convertRun(p.args, flags, TickerPrices, up)
                               ELSE Run(f.cmd.Run, p.args, haveCreds, up)
                      IN  res(b.out, b.err, f.cmd.Run, b.effect, p.set)

-----------------------------------------------------------------------------
(* Environment.                                                            *)

\* Mutant of Push: a scope already on the stack is not pushed again.
Push_dedup(stack, scope) ==
    IF \E i \in 1..Len(stack) : stack[i] = scope THEN stack ELSE Append(stack, scope)

\* Mutant of Push: the scope goes under the stack.
Push_under(stack, scope) == <<scope>> \o stack

\* Push: append to the stack.
Push(stack, scope) == Append(stack, scope)

\* Mutant of CurrentScope: the bottom of the stack.
CurrentScope_bottom(stack) == stack[1]

\* CurrentScope: the top of the stack.
CurrentScope(stack) == stack[Len(stack)]

\* CurrentScope on a stack without frames indexes it at -1: the runtime
\* panics with an index out of range.
CurrentScopeFaults(stack) == Len(stack) - 1 < 0

\* Mutant of PopExits: only the empty stack is terminal.
PopExits_empty(stack) == Len(stack) < 1

\* Pop's test for the terminal request.
PopExits(stack) == Len(stack) <= 1

\* Mutant of PopSlice: everything but the bottom.
PopSlice_bottom(stack) == SubSeq(stack, 2, Len(stack))

\* Pop's slice: everything but the top.
PopSlice(stack) == SubSeq(stack, 1, Len(stack) - 1)

Nil == 0

\* The scope NewRootScope builds is the first object of the run.
rootScope == 1

\* Mutant of Pop: the top is removed before the terminal test.
Pop_sliceFirst(stack) ==
    IF stack = <<>> THEN [exits |-> TRUE, stack |-> stack, ret |-> Nil]
    ELSE [exits |-> PopExits(stack), stack |-> PopSlice(stack),
          ret |-> IF PopExits(stack) THEN Nil ELSE CurrentScope(stack)]

\* Pop: exit the process at depth <= 1, else remove and return the top.
Pop(stack) ==
    IF PopExits(stack)
    THEN [exits |-> TRUE, stack |-> stack, ret |-> Nil]
    ELSE [exits |-> FALSE, stack |-> PopSlice(stack), ret |-> CurrentScope(stack)]

\* ExecutorFunc's guard on the raw line.
IsEmptyInput(input) == input = <<>>

\* ExecutorFunc up to the end of cmd.Execute(): the stage it returns from,
\* what it printed, the run body it executed and that body's effect.
ExecutorSteps(input, stack, objs, r, haveCreds, up) ==
    LET res(stage, out, ran, effect, path, scope, set) ==
            [stage |-> stage, out |-> out, ran |-> ran, effect |-> effect,
             path |-> path, scope |-> scope, set |-> set, wrote |-> {}]
    IN  IF IsEmptyInput(input) THEN res("empty", <<>>, "none", "none", <<>>, Nil, {})
        ELSE LET t == Split(input)
             IN  IF t.err # NoErr
                 THEN res("split", <<Msg("warn", t.err.text, t.err.arg)>>,
                          "none", "none", <<>>, Nil, {})
                 ELSE IF CurrentScopeFaults(stack)
                 THEN res("scope", <<>>, "none", "panic", <<>>, Nil, {})
                 ELSE IF CurrentScope(stack) = Nil
                 THEN res("scope", <<Msg("warn", "current scope is nil", <<>>)>>,
                          "none", "none", <<>>, Nil, {})
                 ELSE LET scope == CurrentScope(stack)
                          root == GetCommand([objs[scope] EXCEPT !.helpCmd = TRUE], r)
                          e == Execute(root, t.words, haveCreds, up)
                          warned == IF e.err # NoErr
                                    THEN <<Msg("warn", e.err.text, e.err.arg)>>
                                    ELSE <<>>
                      IN  [res("execute", e.out \o warned, e.ran, e.effect, e.path,
                               scope, e.set) EXCEPT !.wrote = e.wrote]

-----------------------------------------------------------------------------
(* The completer.                                                          *)

Suggest(text, description) == [Text |-> text, Description |-> description]

\* prompt.Document: the text of the (single) line and the cursor position.
Document(text, cursor) == [Text |-> text, cursor |-> cursor]

CurrentLine(doc) == doc.Text

TextBeforeCursor(doc) == SubSeq(doc.Text, 1, doc.cursor)

\* The text before the cursor from after its last blank.
GetWordBeforeCursor(doc) ==
    LET x == TextBeforeCursor(doc)
        blanks == {i \in 1..Len(x) : x[i] = SP}
        start == IF blanks = {} THEN 1
                 ELSE 1 + CHOOSE i \in blanks : \A j \in blanks : j <= i
    IN  SubSeq(x, start, Len(x))

\* The flags of a command, as --name candidates.
FlagSuggestions(cmd) ==
    LET fs == SortFlags(cmd.Flags)
    IN  [i \in 1..Len(fs) |-> Suggest(<<"-", "-">> \o fs[i].Name, fs[i].Usage)]

\* Mutant of ValidArgSuggestions: offered whatever is before the cursor.
ValidArgSuggestions_always(cmd, prevWord) ==
    [i \in 1..Len(cmd.ValidArgs) |-> Suggest(cmd.ValidArgs[i], "")]

\* The valid arguments of a command, offered once a word is before the cursor.
ValidArgSuggestions(cmd, prevWord) ==
    IF Len(cmd.ValidArgs) > 0 /\ Len(prevWord) > 0
    THEN [i \in 1..Len(cmd.ValidArgs) |-> Suggest(cmd.ValidArgs[i], "")]
    ELSE <<>>

\* getSuggestions: the first command whose name opens the line decides, with
\* the candidates of its own children, its flags and its valid arguments;
\* when none does, the names of the commands at this level.
RECURSIVE getSuggestions(_, _, _)
RECURSIVE suggestFrom(_, _, _, _, _)
suggestFrom(line, commands, prevWord, i, rootCompletions) ==
    IF i > Len(commands) THEN rootCompletions
    ELSE LET cmd == commands[i]
         IN  IF HasPrefix(line, cmd.Use)
             THEN getSuggestions(line, Commands(cmd), prevWord)
                  \o FlagSuggestions(cmd) \o ValidArgSuggestions(cmd, prevWord)
             ELSE suggestFrom(line, commands, prevWord, i + 1,
                              Append(rootCompletions, Suggest(cmd.Use, cmd.Short)))

getSuggestions(line, commands, prevWord) ==
    suggestFrom(line, commands, prevWord, 1, <<>>)

\* Mutant of fuzzyMatch: sub is the whole of s.
fuzzyMatch_whole(s, sub) == s = sub

\* fuzzyMatch: the characters of sub occur in s in this order.
RECURSIVE fuzzyMatch(_, _)
fuzzyMatch(s, sub) ==
    IF sub = <<>> THEN TRUE
    ELSE IF s = <<>> THEN FALSE
    ELSE IF s[1] = sub[1] THEN fuzzyMatch(Tail(s), Tail(sub))
    ELSE fuzzyMatch(Tail(s), sub)

\* prompt.FilterFuzzy(suggestions, sub, true): order kept, case ignored.
FilterFuzzy(suggestions, sub) ==
    IF sub = <<>> THEN suggestions
    ELSE SelectSeq(suggestions, LAMBDA x : fuzzyMatch(ToUpper(x.Text), ToUpper(sub)))

\* The scope whose tree CompletorFunc walks.
CompletorScope(stack) == CurrentScope(stack)

\* Mutant of AfterCompletion: the walk initialises the help command of the
\* scope, as cmd.Execute() does.
AfterCompletion_help(objs, scope) == [objs EXCEPT ![scope].helpCmd = TRUE]

\* The scope objects after CompletorFunc walked the tree of scope:
\* GetCommand, Commands, Flags().VisitAll and ValidArgs add no command and
\* set no flag. (Commands() orders the children by name where they are
\* kept; the order it returns is the same at every call.)
AfterCompletion(objs, scope) == objs

\* Mutant of Completions: the blank line is completed like any other.
Completions_noGuard(doc, stack, objs, r) ==
    LET cand == getSuggestions(TrimSpace(CurrentLine(doc)),
                               Commands(GetCommand(objs[CompletorScope(stack)], r)),
                               GetWordBeforeCursor(doc))
    IN  [cand |-> cand, sugg |-> FilterFuzzy(cand, GetWordBeforeCursor(doc))]

\* CompletorFunc on a non-empty stack: cand is what getSuggestions gave it
\* (nothing when it was not called), sugg what CompletorFunc returns.
Completions(doc, stack, objs, r) ==
    LET line == TrimSpace(CurrentLine(doc))
        cand == getSuggestions(line,
                               Commands(GetCommand(objs[CompletorScope(stack)], r)),
                               GetWordBeforeCursor(doc))
    IN  IF TrimSpace(line) = <<>> THEN [cand |-> <<>>, sugg |-> <<>>]
        ELSE [cand |-> cand, sugg |-> FilterFuzzy(cand, GetWordBeforeCursor(doc))]

\* strings.Join
RECURSIVE Join(_, _)
Join(ss, sep) ==
    IF ss = <<>> THEN <<>>
    ELSE IF Len(ss) = 1 THEN ss[1]
    ELSE ss[1] \o sep \o Join(Tail(ss), sep)

\* Mutant of ChangeLivePrefix: the frames are read from the top down.
ChangeLivePrefix_topDown(stack, objs) ==
    [prefix |-> Join([i \in 1..Len(stack) |-> Prefix(objs[stack[Len(stack) + 1 - i]])],
                     <<":">>) \o <<">", SP>>,
     live |-> TRUE]

\* ChangeLivePrefix: the prompt for the stack.
ChangeLivePrefix(stack, objs) ==
    [prefix |-> Join([i \in 1..Len(stack) |-> Prefix(objs[stack[i]])], <<":">>)
                \o <<">", SP>>,
     live |-> TRUE]

-----------------------------------------------------------------------------
(* Inputs.                                                                 *)

Words(ws) == [i \in 1..(2 * Len(ws) - 1) |-> IF i % 2 = 1 THEN ws[(i + 1) \div 2] ELSE <<SP>>]

RECURSIVE Concat(_)
Concat(ss) == IF ss = <<>> THEN <<>> ELSE ss[1] \o Concat(Tail(ss))

\* The words joined by single blanks.
Line(ws) == Concat(Words(ws))

L_empty == <<>>
L_blank == <<SP, SP>>
L_use == Line(<<s_use>>)
L_use_binance == Line(<<s_use, s_binance>>)
L_use_foo == Line(<<s_use, s_foo>>)
L_exit == Line(<<s_exit>>)
L_quit == Line(<<s_quit>>)
L_help == Line(<<s_help>>)
L_foo == Line(<<s_foo>>)
L_depth == Line(<<s_depth>>)
L_depth_sym == Line(<<s_depth, s_ETHBTC>>)
L_asset_XYZ == Line(<<s_asset_price, s_XYZ>>)
L_asset_ETH == Line(<<s_asset_price, s_ETH>>)
L_asset_two == Line(<<s_asset_price, s_ETH, s_XYZ>>)
L_asset_quoted == s_asset_price \o <<SP, DQ>> \o s_XYZ \o <<DQ>>
L_open_quote == s_depth \o <<SP, DQ>> \o s_ETH
L_open_single == s_use \o <<SP, SQ>> \o s_binance
L_price_sym == Line(<<s_symbol_price, s_ETHBTC>>)
L_risk == Line(<<s_risk, s_ETHBTC>>)
L_risk_flags ==
    Line(<<s_risk, s_ETHBTC, <<"-", "-">> \o s_inv, <<"1">>,
           <<"-", "-">> \o s_entry, <<"2">>, <<"-", "-">> \o s_stop, <<"1">> >>)

L_shares == s_shares
L_shares_inv == Line(<<s_shares, <<"-", "-">> \o s_inv, <<"6">> >>)
L_shares_price == Line(<<s_shares, <<"-", "-">> \o s_inv, <<"6">>,
                         <<"-", "-">> \o s_price, <<"2">> >>)
L_shares_sym == Line(<<s_shares, <<"-", "-">> \o s_inv, <<"6">>, s_ETHBTC>>)

L_convert_btc_usdt == Line(<<s_convert, <<"-", "-">> \o s_amount, <<"2">>,
                             s_ETHBTC, s_ETHUSDT>>)
L_convert_usdt_btc == Line(<<s_convert, <<"-", "-">> \o s_amount, <<"2">>,
                             s_ETHUSDT, s_ETHBTC>>)
L_convert_xyz_btc == Line(<<s_convert, <<"-", "-">> \o s_amount, <<"2">>,
                            s_XYZ, s_ETHBTC>>)
L_convert_btc_xyz == Line(<<s_convert, <<"-", "-">> \o s_amount, <<"2">>,
                            s_ETHBTC, s_XYZ>>)

\* The lines of a session that calculates shares, and of one that converts.
SharesLines ==
    {L_use_binance, L_exit, L_shares, L_shares_inv, L_shares_price, L_shares_sym}
ConvertLines ==
    {L_use_binance, L_exit, L_convert_btc_usdt, L_convert_usdt_btc,
     L_convert_xyz_btc, L_convert_btc_xyz}

\* The lines typed at the prompt.
Lines ==
    {L_empty, L_blank, L_use, L_use_binance, L_use_foo, L_exit, L_quit, L_help,
     L_foo, L_depth, L_depth_sym, L_asset_XYZ, L_asset_ETH, L_asset_two,
     L_asset_quoted, L_open_quote, L_open_single, L_price_sym, L_risk,
     L_risk_flags}

AtEnd(text) == Document(text, Len(text))

\* The documents the prompt hands to the completer.
Documents ==
    {AtEnd(<<>>), AtEnd(<<SP>>), AtEnd(s_acc), AtEnd(s_dep), AtEnd(s_use),
     AtEnd(s_use \o <<SP>>), AtEnd(Line(<<s_use, s_bin>>)),
     AtEnd(Line(<<s_depth, <<"E">> >>)), Document(L_use_binance, Len(s_use)),
     AtEnd(L_use_binance \o <<SP>>), AtEnd(s_depth), AtEnd(s_depth \o <<SP>>),
     AtEnd(s_risk \o <<SP>>), AtEnd(s_account_b)}

-----------------------------------------------------------------------------
(* The state machine.                                                      *)

\* The last call: what it was given, what it returned and printed. up is
\* the answer the exchange had for ExecutorFunc, cand are the candidates
\* getSuggestions gave CompletorFunc, prefix and live what ChangeLivePrefix
\* returned.
Call(op, input, arg, ret, res, sugg) ==
    [op |-> op, input |-> input, arg |-> arg, ret |-> ret, stage |-> res.stage,
     out |-> res.out, ran |-> res.ran, path |-> res.path, scope |-> res.scope,
     sugg |-> sugg, cand |-> <<>>, prefix |-> <<>>, live |-> FALSE, up |-> FALSE]

NoRes == [stage |-> "", out |-> <<>>, ran |-> "none", effect |-> "none",
          path |-> <<>>, scope |-> Nil, set |-> {}, wrote |-> {}]

\* NewEnvironment: the root scope is built and pushed.
Init ==
    /\ rev \in Revisions
    /\ creds \in BOOLEAN
    /\ scopes = <<NewObject("root")>>
    /\ ScopeStack = Push(<<>>, rootScope)
    /\ proc = "running"
    /\ status = 0
    /\ call = Call("NewEnvironment", <<>>, Nil, Nil, NoRes, <<>>)
    /\ nPush = 0
    /\ nPop = 0

\* env.Push(scope) with a scope built earlier.
EnvPush(scope) ==
    /\ proc = "running"
    /\ Len(ScopeStack) < MaxDepth
    /\ nPush < MaxPush
    /\ ScopeStack' = Push(ScopeStack, scope)
    /\ nPush' = nPush + 1
    /\ call' = Call("Push", <<>>, scope, Nil, NoRes, <<>>)
    /\ UNCHANGED <<rev, creds, scopes, proc, status, nPop>>

\* env.Pop()
EnvPop ==
    /\ proc = "running"
    /\ LET p == Pop(ScopeStack)
       IN  /\ ScopeStack' = p.stack
           /\ proc' = IF p.exits THEN "exited" ELSE "running"
           /\ status' = IF p.exits THEN 0 ELSE status
           /\ nPop' = IF p.exits THEN nPop ELSE nPop + 1
           /\ call' = Call("Pop", <<>>, Nil, p.ret, NoRes, <<>>)
    /\ UNCHANGED <<rev, creds, scopes, nPush>>

\* env.ExecutorFunc(input); up: the exchange answers the body's request.
ExecutorFunc(input, up) ==
    /\ proc = "running"
    /\ \E r \in {ExecutorSteps(input, ScopeStack, scopes, rev, creds, up)} :
       LET p == Pop(ScopeStack)
           objs == IF r.scope = Nil THEN scopes
                   ELSE [scopes EXCEPT
                           ![r.scope].helpCmd = TRUE,
                           ![r.scope].set =
                               {x \in @ : ~\E y \in r.set : y[1] = x[1] /\ y[2] = x[2]}
                                   \cup r.set,
                           ![r.scope].vars =
                               {x \in @ : ~\E y \in r.set \cup r.wrote :
                                               y[1] = x[1] /\ y[2] = x[2]}
                                   \cup r.wrote]
           exits == r.effect = "exit" \/ (r.effect = "pop" /\ p.exits)
       IN  /\ r.effect = "push" =>
                /\ Len(ScopeStack) < MaxDepth
                /\ nPush < MaxPush
                /\ Len(scopes) < MaxScopes
           /\ scopes' = IF r.effect = "push"
                        THEN Append(objs, NewObject("binance"))
                        ELSE objs
           /\ ScopeStack' = CASE r.effect = "push" -> Push(ScopeStack, Len(scopes) + 1)
                              [] r.effect = "pop" -> p.stack
                              [] OTHER -> ScopeStack
           /\ proc' = CASE exits -> "exited"
                        [] r.effect = "panic" -> "crashed"
                        [] OTHER -> "running"
           /\ status' = CASE exits -> 0
                          [] r.effect = "panic" -> 2
                          [] OTHER -> status
           /\ nPush' = IF r.effect = "push" THEN nPush + 1 ELSE nPush
           /\ nPop' = IF r.effect = "pop" /\ ~p.exits THEN nPop + 1 ELSE nPop
           /\ call' = [Call("ExecutorFunc", input, Nil,
                            IF r.effect = "pop" THEN p.ret ELSE Nil, r, <<>>)
                       EXCEPT !.up = up]
    /\ UNCHANGED <<rev, creds>>

\* env.CompletorFunc(doc)
CompletorFunc(doc) ==
    /\ proc = "running"
    /\ LET blank == TrimSpace(CurrentLine(doc)) = <<>>
           fault == ~blank /\ CurrentScopeFaults(ScopeStack)
       IN  \E c \in {IF fault THEN [cand |-> <<>>, sugg |-> <<>>]
                     ELSE Completions(doc, ScopeStack, scopes, rev)} :
           /\ proc' = IF fault THEN "crashed" ELSE "running"
           /\ status' = IF fault THEN 2 ELSE status
           /\ scopes' = IF blank \/ fault THEN scopes
                        ELSE AfterCompletion(scopes, CompletorScope(ScopeStack))
           /\ call' = [Call("CompletorFunc", doc.Text, doc.cursor, Nil,
                            [NoRes EXCEPT !.scope = IF blank \/ fault THEN Nil
                                                    ELSE CompletorScope(ScopeStack)],
                            c.sugg)
                       EXCEPT !.cand = c.cand]
    /\ UNCHANGED <<rev, creds, ScopeStack, nPush, nPop>>

\* env.ChangeLivePrefix()
EnvChangeLivePrefix ==
    /\ proc = "running"
    /\ \E p \in {ChangeLivePrefix(ScopeStack, scopes)} :
           call' = [Call("ChangeLivePrefix", <<>>, Nil, Nil, NoRes, <<>>)
                       EXCEPT !.prefix = p.prefix, !.live = p.live]
    /\ UNCHANGED <<rev, creds, ScopeStack, scopes, proc, status, nPush, nPop>>

Next ==
    \/ \E scope \in 1..Len(scopes) : EnvPush(scope)
    \/ EnvPop
    \/ \E input \in Lines, up \in BOOLEAN : ExecutorFunc(input, up)
    \/ \E doc \in Documents : CompletorFunc(doc)
    \/ EnvChangeLivePrefix

Spec == Init /\ [][Next]_vars

\* The shell: the prompt calls the executor, the completer and the prefix
\* function; Push and Pop are called by the bodies of commands only.
ShellNext ==
    \/ \E input \in Lines, up \in BOOLEAN : ExecutorFunc(input, up)
    \/ \E doc \in Documents : CompletorFunc(doc)
    \/ EnvChangeLivePrefix

SpecShell == Init /\ [][ShellNext]_vars

\* The shell in a session that calculates shares.
SharesNext == \E input \in SharesLines, up \in BOOLEAN : ExecutorFunc(input, up)

SpecShares == Init /\ [][SharesNext]_vars

\* The shell in a session that converts amounts.
ConvertNext == \E input \in ConvertLines, up \in BOOLEAN : ExecutorFunc(input, up)

SpecConvert == Init /\ [][ConvertNext]_vars

\* The helpers of the Binance scope, called on their own. The prices the
\* ticker may hold for the three symbols of a comparison, the listings a
\* scope may have been built with, and the strings a column may show.
MarketTexts == {<<"0">>, <<"1">>, <<"1", "0", "0">>, <<"2", "0", "0">>}
FirstLegTexts == {<<"1">>, <<"9", "9">>, <<"1", "0", "0">>, <<"1", "0", "1">>,
                  <<"2", "0", "1">>}
SecondLegTexts == {<<"0">>, <<"1">>, <<"2">>, <<"x">>}

CompareArgs == <<s_ETHUSDT, s_ETHBTC, s_BTCUSDT>>

MaxStrLen == 3
MaxPadLength == 4

RECURSIVE StringsUpTo(_)
StringsUpTo(n) ==
    IF n = 0 THEN {<<>>}
    ELSE StringsUpTo(n - 1)
         \cup {Append(t, c) : t \in {u \in StringsUpTo(n - 1) : Len(u) = n - 1},
                               c \in {"1", "2"}}

Listings == {SubSeq(Symbols, 1, n) : n \in 0..Len(Symbols)}
                \cup {<<Symbols[2]>>, <<Symbols[2], Symbols[1]>>}

\* compare with the ticker holding pa, pb and pc for its three symbols.
FnCompare(pa, pb, pc) ==
    /\ \E b \in {compareRun(CompareArgs,
                              (CompareArgs[1] :> pa) @@ (CompareArgs[2] :> pb)
                                  @@ (CompareArgs[3] :> pc), TRUE)} :
          call' = Call("compare", <<pa, pb, pc>>, Nil, Nil,
                       [NoRes EXCEPT !.out = b.out], <<>>)
    /\ UNCHANGED <<rev, creds, ScopeStack, scopes, proc, status, nPush, nPop>>

\* getSymbolList() of a scope built with the listing symbols.
FnGetSymbolList(symbols) ==
    /\ call' = Call("getSymbolList", symbols, Nil, getSymbolListOf(symbols), NoRes, <<>>)
    /\ UNCHANGED <<rev, creds, ScopeStack, scopes, proc, status, nPush, nPop>>

\* padLeft(str, pad, length)
FnPadLeft(str, pad, length) ==
    /\ call' = Call("padLeft", str, [pad |-> pad, length |-> length],
                    padLeft(str, pad, length), NoRes, <<>>)
    /\ UNCHANGED <<rev, creds, ScopeStack, scopes, proc, status, nPush, nPop>>

FnNext ==
    \/ \E pa \in MarketTexts, pb \in FirstLegTexts, pc \in SecondLegTexts :
          FnCompare(pa, pb, pc)
    \/ \E symbols \in Listings : FnGetSymbolList(symbols)
    \/ \E str \in StringsUpTo(MaxStrLen), pad \in {<<SP>>, <<"0">>},
          length \in 0..MaxPadLength : FnPadLeft(str, pad, length)

SpecFn == Init /\ [][FnNext]_vars

\* NewEnvironment between NewRootScope(env) and env.Push(rootScope): the
\* root scope is built and holds env, whose stack is still the empty slice
\* it was made with.
InitBeforePush ==
    /\ rev \in Revisions
    /\ creds \in BOOLEAN
    /\ scopes = <<NewObject("root")>>
    /\ ScopeStack = <<>>
    /\ proc = "running"
    /\ status = 0
    /\ call = Call("NewRootScope", <<>>, Nil, rootScope, NoRes, <<>>)
    /\ nPush = 0
    /\ nPop = 0

\* The environment used from the moment it exists.
SpecFromConstruction == InitBeforePush /\ [][Next]_vars

-----------------------------------------------------------------------------
(* Properties.                                                             *)

\* The top and the depth of a stack, read off the sequence itself.
Top(stack) == stack[Len(stack)]
Below(stack) == SubSeq(stack, 1, Len(stack) - 1)

\* A step that is a call of Pop: env.Pop() itself or the body of exit.
PopStep == call'.op = "Pop" \/ (call'.op = "ExecutorFunc" /\ call'.ran = "exit")

\* The names of the commands right under a root command.
ChildNames(root) == {root.Commands[i].Use : i \in 1..Len(root.Commands)}

\* The names and the run bodies anywhere under a command.
RECURSIVE TreeNames(_)
TreeNames(c) ==
    {c.Commands[i].Use : i \in 1..Len(c.Commands)}
    \cup UNION {TreeNames(c.Commands[i]) : i \in 1..Len(c.Commands)}

RECURSIVE TreeBodies(_)
TreeBodies(c) ==
    {c.Commands[i].Run : i \in 1..Len(c.Commands)}
    \cup UNION {TreeBodies(c.Commands[i]) : i \in 1..Len(c.Commands)}

\* The command tree of a scope object while its root command executes.
ExecTree(obj) == GetCommand([obj EXCEPT !.helpCmd = TRUE], rev)

Warned(out, text, arg) ==
    \E i \in 1..Len(out) : out[i] = Msg("warn", text, arg)

\* C1: in every reachable state the scope stack has at least one frame and
\* its bottom frame is the root scope ("mercator") NewEnvironment pushed.
C1_RootNeverLeaves ==
    /\ Len(ScopeStack) >= 1
    /\ ScopeStack[1] = rootScope
    /\ Prefix(scopes[ScopeStack[1]]) = s_mercator

\* C1 witness: pops have brought a stack that grew back to the root alone.
C1_Witness ==
    /\ call.op = "Pop"
    /\ call.ret # Nil
    /\ nPush >= 2
    /\ ScopeStack = <<rootScope>>

\* C2: a Pop at depth <= 1 ends the process with status 0, removes no frame
\* and returns no scope.
C2_PopAtRootExits ==
    [][PopStep /\ Len(ScopeStack) <= 1 =>
          /\ proc' = "exited"
          /\ status' = 0
          /\ ScopeStack' = ScopeStack
          /\ call'.ret = Nil]_vars

\* C2 witness: the process has exited on env.Pop() at depth 1.
C2_Witness ==
    /\ call.op = "Pop"
    /\ proc = "exited"
    /\ status = 0
    /\ Len(ScopeStack) = 1

\* C3: while no Pop was issued at depth 1, after N pushes and M pops the
\* depth is 1+N-M and the bottom frame is the one before the sequence.
C3_DepthCounts ==
    proc = "running" =>
        /\ Len(ScopeStack) = 1 + nPush - nPop
        /\ ScopeStack[1] = rootScope

\* C3 witness: pushes and pops have interleaved.
C3_Witness ==
    /\ proc = "running"
    /\ nPush = 2
    /\ nPop = 1
    /\ Len(ScopeStack) = 2
    /\ call.op = "Push"

\* C4: a Pop at depth > 1 removes the top frame alone, returns the scope
\* that was on top, and the process goes on.
C4_PopRemovesTop ==
    [][PopStep /\ Len(ScopeStack) > 1 =>
          /\ ScopeStack' = Below(ScopeStack)
          /\ call'.ret = Top(ScopeStack)
          /\ proc' = "running"]_vars

\* C4 witness: env.Pop() has returned the top of a stack of depth 3, whose
\* two lower frames differ.
C4_Witness ==
    /\ call.op = "Pop"
    /\ call.ret # Nil
    /\ Len(ScopeStack) = 2
    /\ ScopeStack[1] # ScopeStack[2]

\* C5: Push(scope) adds exactly one frame, scope, on top of the frames
\* there were, whether or not scope is on the stack already.
C5_PushAppends ==
    [][call'.op = "Push" =>
          /\ Len(ScopeStack') = Len(ScopeStack) + 1
          /\ Top(ScopeStack') = call'.arg
          /\ Below(ScopeStack') = ScopeStack]_vars

\* C5 witness: the same scope has been pushed twice in a row.
C5_Witness ==
    /\ call.op = "Push"
    /\ Len(ScopeStack) = 3
    /\ ScopeStack[2] = call.arg
    /\ ScopeStack[3] = call.arg

\* C6: an execution and a completion are served by the scope on top of the
\* stack at the request: the executor runs only bodies of that scope's tree
\* and finds no command of a lower frame alone (use, while a Binance scope
\* is on top); the completer offers a command name only from that tree.
C6_TopScopeServes ==
    [][/\ (call'.op = "ExecutorFunc" /\ call'.stage = "execute") =>
            /\ call'.scope = Top(ScopeStack)
            /\ call'.ran # "none" =>
                   call'.ran \in TreeBodies(ExecTree(scopes[Top(ScopeStack)]))
            /\ (call'.input \in {L_use, L_use_binance, L_use_foo}
                    /\ scopes[Top(ScopeStack)].kind = "binance") =>
                   /\ call'.ran = "none"
                   /\ Warned(call'.out, "unknown command for root", s_use)
                   /\ ScopeStack' = ScopeStack
       /\ (call'.op = "CompletorFunc" /\ TrimSpace(call'.input) # <<>>) =>
            /\ call'.scope = Top(ScopeStack)
            /\ \A i \in 1..Len(call'.sugg) :
                   call'.sugg[i].Description # "" /\ call'.sugg[i].Text[1] # "-" =>
                       call'.sugg[i].Text \in TreeNames(GetCommand(scopes[Top(ScopeStack)], rev))
            /\ (call'.input = s_dep) =>
                   ((\E i \in 1..Len(call'.sugg) : call'.sugg[i].Text = s_depth)
                        <=> scopes[Top(ScopeStack)].kind = "binance")]_vars

\* C6 witness: use binance was typed with a Binance scope on top of the
\* root scope and ran nothing.
C6_Witness ==
    /\ call.op = "ExecutorFunc"
    /\ call.input = L_use_binance
    /\ call.ran = "none"
    /\ Len(ScopeStack) >= 2
    /\ ScopeStack[1] = rootScope
    /\ scopes[Top(ScopeStack)].kind = "binance"

\* C7 (as claimed): no input line crashes the loop: after ExecutorFunc the
\* process runs on or has exited with status 0.
C7_NoLineCrashes ==
    call.op = "ExecutorFunc" =>
        \/ proc = "running"
        \/ proc = "exited" /\ status = 0

\* C8: a line whose first word names no command of the active scope's root
\* is answered with an unknown-command warning; no body runs, the stack is
\* unchanged and the process goes on.
C8_UnknownCommand ==
    [][(/\ call'.op = "ExecutorFunc"
        /\ call'.stage = "execute"
        /\ Split(call'.input).words # <<>>
        /\ Split(call'.input).words[1]
               \notin ChildNames(ExecTree(scopes[Top(ScopeStack)]))) =>
          /\ Warned(call'.out, "unknown command for root", Split(call'.input).words[1])
          /\ call'.ran = "none"
          /\ ScopeStack' = ScopeStack
          /\ proc' = "running"]_vars

\* C8 witness: foo was typed in the root scope and was not found.
C8_Witness ==
    /\ call.op = "ExecutorFunc"
    /\ call.input = L_foo
    /\ call.ran = "none"
    /\ Warned(call.out, "unknown command for root", s_foo)
    /\ ScopeStack = <<rootScope>>

\* A failure of the price listing, as the bodies report it.
UpstreamReported(out) ==
    \E i \in 1..Len(out) : out[i].text = UpstreamErr.text

\* C9: asset-price with an asset that is no base asset, once the prices
\* are listed, shows the one message "unknown symbol: <asset>"; the stack
\* is unchanged and the process goes on.
C9_DescriptiveFailure ==
    [][(/\ call'.op = "ExecutorFunc"
        /\ call'.ran \in {"asset-price", "asset-price/console"}
        /\ Split(call'.input).words = <<s_asset_price, s_XYZ>>
        /\ ~UpstreamReported(call'.out)) =>
          /\ \E ch \in {"error", "warn"} :
                 call'.out = <<Msg(ch, "unknown symbol: ", s_XYZ)>>
          /\ ScopeStack' = ScopeStack
          /\ proc' = "running"]_vars

\* C9 witness: asset-price XYZ has reported the unknown symbol.
C9_Witness ==
    /\ call.op = "ExecutorFunc"
    /\ call.input = L_asset_XYZ
    /\ Len(call.out) = 1
    /\ call.out[1].text = "unknown symbol: "
    /\ call.out[1].arg = s_XYZ
    /\ proc = "running"

\* C10 (as claimed): an empty or blank line prints nothing and runs nothing.
C10_BlankLineIsNoOp ==
    (call.op = "ExecutorFunc" /\ TrimSpace(call.input) = <<>>) =>
        /\ call.out = <<>>
        /\ call.ran = "none"

\* A line with a quote left open: an odd count of one kind of quote and
\* none of the other.
OpenQuote(input) ==
    LET n(q) == Cardinality({i \in 1..Len(input) : input[i] = q})
    IN  \/ n(DQ) % 2 = 1 /\ n(SQ) = 0
        \/ n(SQ) % 2 = 1 /\ n(DQ) = 0

\* C11: a line that fails tokenization gets one warning; no scope is
\* resolved, no command executed (no command tree touched), the stack is
\* unchanged and the process goes on.
C11_SplitFailureWarns ==
    [][(call'.op = "ExecutorFunc" /\ OpenQuote(call'.input)) =>
          /\ \E text \in {"Unterminated single-quoted string",
                          "Unterminated double-quoted string"} :
                 call'.out = <<Msg("warn", text, <<>>)>>
          /\ call'.stage = "split"
          /\ call'.scope = Nil
          /\ call'.ran = "none"
          /\ ScopeStack' = ScopeStack
          /\ scopes' = scopes
          /\ proc' = "running"]_vars

\* C11 witness: a line with an open double quote was warned about in a
\* Binance scope.
C11_Witness ==
    /\ call.op = "ExecutorFunc"
    /\ call.input = L_open_quote
    /\ call.out = <<Msg("warn", "Unterminated double-quoted string", <<>>)>>
    /\ Len(ScopeStack) = 2
    /\ proc = "running"

\* C12: when use binance runs and the scope cannot be built (no credentials,
\* or the symbol listing fails), nothing is pushed and no scope object comes
\* to exist; the stack is as before, the failure is reported, and Binance
\* scope objects exist only where one was built with credentials.
C12_FailedScopeNotPushed ==
    [][(call'.op = "ExecutorFunc" /\ call'.ran = "binance") =>
          /\ (~creds \/ ~call'.up) =>
                /\ ScopeStack' = ScopeStack
                /\ Len(scopes') = Len(scopes)
                /\ nPush' = nPush
                /\ Len(call'.out) = 1
                /\ call'.out[1].ch = "error"
                /\ proc' = "running"
          /\ (creds /\ call'.up) =>
                /\ Len(scopes') = Len(scopes) + 1
                /\ ScopeStack' = Append(ScopeStack, Len(scopes'))
                /\ call'.out = <<>>
          /\ \A i \in 1..Len(scopes') : scopes'[i].kind = "binance" => creds]_vars

\* C12 witness: use binance failed on the symbol listing, with credentials,
\* and the root scope is alone on the stack.
C12_Witness ==
    /\ call.op = "ExecutorFunc"
    /\ call.input = L_use_binance
    /\ call.ran = "binance"
    /\ creds
    /\ ~call.up
    /\ ScopeStack = <<rootScope>>
    /\ Len(scopes) = 1

\* The steps of quit and exit: quit exits with status 0 at any depth, exit
\* does at depth 1, exit above depth 1 removes one frame and goes on.
C13_ExitQuitStep ==
    call'.op = "ExecutorFunc" =>
        /\ call'.ran = "quit" =>
              proc' = "exited" /\ status' = 0 /\ ScopeStack' = ScopeStack
        /\ (call'.ran = "exit" /\ Len(ScopeStack) = 1) =>
              proc' = "exited" /\ status' = 0 /\ ScopeStack' = ScopeStack
        /\ (call'.ran = "exit" /\ Len(ScopeStack) > 1) =>
              proc' = "running" /\ ScopeStack' = Below(ScopeStack)

\* The steps of every other line: the process goes on.
C13_OtherStep ==
    (call'.op = "ExecutorFunc" /\ call'.ran \notin {"quit", "exit"}) =>
        proc' = "running"

\* C13 (as claimed): quit exits with status 0 at any depth, exit at depth 1
\* does, exit above depth 1 pops one scope and goes on, and no other command
\* ends the process.
C13_OnlyQuitAndExitEnd == [][C13_ExitQuitStep /\ C13_OtherStep]_vars

\* The prompt of a stack, frame by frame from the bottom.
RECURSIVE PromptOf(_)
PromptOf(kinds) ==
    LET name == IF kinds[1] = "root" THEN s_mercator ELSE s_binance
    IN  IF Len(kinds) = 1 THEN name \o <<">", SP>>
        ELSE name \o <<":">> \o PromptOf(Tail(kinds))

\* C14: ChangeLivePrefix returns the prefixes of the frames from the bottom
\* to the top joined by ":" and followed by "> ", with the flag true:
\* "mercator> " for the root scope alone, "mercator:binance> " with a
\* Binance scope on it. The stack is unchanged.
C14_PromptPrefix ==
    [][call'.op = "ChangeLivePrefix" =>
          /\ call'.live
          /\ call'.prefix =
                 PromptOf([i \in 1..Len(ScopeStack) |-> scopes[ScopeStack[i]].kind])
          /\ ScopeStack = <<rootScope>> => call'.prefix = s_mercator \o <<">", SP>>
          /\ (Len(ScopeStack) = 2 /\ ScopeStack[1] = rootScope
                  /\ scopes[ScopeStack[2]].kind = "binance") =>
                 call'.prefix = s_mercator \o <<":">> \o s_binance \o <<">", SP>>
          /\ ScopeStack' = ScopeStack
          /\ scopes' = scopes]_vars

\* C14 witness: the prompt was asked for after use binance and reads
\* "mercator:binance> ".
C14_Witness ==
    /\ call.op = "ChangeLivePrefix"
    /\ nPush = 1
    /\ Len(ScopeStack) = 2
    /\ scopes[ScopeStack[2]].kind = "binance"
    /\ call.prefix = s_mercator \o <<":">> \o s_binance \o <<">", SP>>
    /\ call.live

\* The words of a line name every required flag of risk.
NamesRequiredFlags(input) ==
    \A name \in {s_inv, s_entry, s_stop} :
        \E i \in 1..Len(Split(input).words) :
            Split(input).words[i] = <<"-", "-">> \o name

\* C15 (as claimed): an invocation of risk whose own arguments omit a
\* required flag fails before the run body, whatever earlier invocations
\* supplied.
C15_RequiredFlagsEachTime ==
    (/\ call.op = "ExecutorFunc"
     /\ call.path = <<s_risk>>
     /\ ~NamesRequiredFlags(call.input)) =>
        /\ call.ran = "none"
        /\ Warned(call.out, "required flag(s) not set", <<>>)

\* The lines a call printed for the user as failures.
Failures(out) == SelectSeq(out, LAMBDA m : m.ch \in {"error", "warn", "stderr"})

\* C16 (as claimed): a command whose price listing fails shows exactly one
\* failure line, and the process goes on.
C16_OneLineOnUpstreamFailure ==
    (/\ call.op = "ExecutorFunc"
     /\ call.input \in {L_price_sym, L_asset_ETH}
     /\ call.ran \in {"symbol-price", "asset-price", "asset-price/console"}
     /\ ~call.up) =>
        /\ Len(Failures(call.out)) = 1
        /\ proc = "running"

\* C17: CompletorFunc returns no suggestion for a line of blanks or an empty
\* line, whatever the stack.
C17_BlankLineCompletesToNothing ==
    (/\ call.op = "CompletorFunc"
     /\ \A i \in 1..Len(call.input) : call.input[i] = SP) =>
        call.sugg = <<>>

\* C17 witness: a blank line was completed with a Binance scope on top.
C17_Witness ==
    /\ call.op = "CompletorFunc"
    /\ call.input = <<SP>>
    /\ call.sugg = <<>>
    /\ Len(ScopeStack) = 2
    /\ scopes[Top(ScopeStack)].kind = "binance"

\* The commands under the root command of the scope on top, as declared.
TopChildren == GetCommand(scopes[Top(ScopeStack)], rev).Commands

\* The last call completed a line that no command of the top scope opens.
MenuCase ==
    /\ call.op = "CompletorFunc"
    /\ TrimSpace(call.input) # <<>>
    /\ \A i \in 1..Len(TopChildren) :
           ~HasPrefix(TrimSpace(call.input), TopChildren[i].Use)

\* C18 (amended): when no command at the level opens the line, the
\* candidates are exactly the names of the commands at that level, each with
\* its short description, in name order, without flags or valid arguments.
C18_MenuInNameOrder ==
    MenuCase =>
        /\ Len(call.cand) = Len(TopChildren)
        /\ \A i \in 1..Len(TopChildren) :
               \E j \in 1..Len(call.cand) :
                   call.cand[j] = Suggest(TopChildren[i].Use, TopChildren[i].Short)
        /\ \A i, j \in 1..Len(call.cand) :
               i < j => LessStr(call.cand[i].Text, call.cand[j].Text)

\* C18 witness: "dep" was completed in the root scope and the menu starts
\* with exit, which is declared after use.
C18_Witness ==
    /\ MenuCase
    /\ call.input = s_dep
    /\ ScopeStack = <<rootScope>>
    /\ call.cand[1] = Suggest(s_exit, exitCommand.Short)
    /\ TopChildren[1].Use = s_use

\* C18 (as claimed): the same, in declaration order.
C18_MenuInDeclarationOrder ==
    MenuCase =>
        call.cand = [i \in 1..Len(TopChildren) |->
                        Suggest(TopChildren[i].Use, TopChildren[i].Short)]

\* C19 (as claimed): for the line "use binance " in the root scope the walk
\* matches use, then binance against the rest of the line, and offers the
\* flags of binance (it has none) instead of the menu of use's children.
C19_WalkMatchesRemainder ==
    (/\ call.op = "CompletorFunc"
     /\ TrimSpace(call.input) = L_use_binance
     /\ scopes[Top(ScopeStack)].kind = "root") =>
        /\ call.cand = FlagSuggestions(binanceScopeCommand)
        /\ \A i \in 1..Len(call.cand) : call.cand[i].Text # s_binance

\* The commands of the top scope that open the completed line and declare
\* valid arguments.
MatchedWithValidArgs ==
    {i \in 1..Len(TopChildren) :
        /\ HasPrefix(TrimSpace(call.input), TopChildren[i].Use)
        /\ TopChildren[i].ValidArgs # <<>>}

\* The candidates hold every valid argument of the command.
OffersValidArgs(cand, cmd) ==
    \A k \in 1..Len(cmd.ValidArgs) :
        \E j \in 1..Len(cand) : cand[j] = Suggest(cmd.ValidArgs[k], "")

\* The candidates hold no valid argument. (Commands and flags have
\* descriptions; valid arguments have none.)
OffersNoValidArgs(cand) == \A j \in 1..Len(cand) : cand[j].Description # ""

\* C20 (amended): for a matched command with valid arguments the candidates
\* include them exactly when a word stands right before the cursor: also
\* with the cursor at the end of the command name, and not with the cursor
\* right after a blank.
C20_ValidArgsWhenWordBeforeCursor ==
    (call.op = "CompletorFunc" /\ TrimSpace(call.input) # <<>>) =>
        \A i \in MatchedWithValidArgs :
            IF call.arg > 0 /\ call.input[call.arg] # SP
            THEN OffersValidArgs(call.cand, TopChildren[i])
            ELSE OffersNoValidArgs(call.cand)

\* C20 witness: "depth" was completed with the cursor at the end of the name
\* in a Binance scope, and the symbols are among the candidates.
C20_Witness ==
    /\ call.op = "CompletorFunc"
    /\ call.input = s_depth
    /\ call.arg = Len(s_depth)
    /\ MatchedWithValidArgs # {}
    /\ \E j \in 1..Len(call.cand) : call.cand[j] = Suggest(s_ETHBTC, "")

\* C20 (as claimed): the valid arguments are candidates exactly when the
\* cursor is past the command name.
C20_ValidArgsWhenPastName ==
    (call.op = "CompletorFunc" /\ TrimSpace(call.input) # <<>>) =>
        \A i \in MatchedWithValidArgs :
            IF call.arg > Len(TopChildren[i].Use)
            THEN OffersValidArgs(call.cand, TopChildren[i])
            ELSE OffersNoValidArgs(call.cand)


Texts(sugg) == [i \in 1..Len(sugg) |-> sugg[i].Text]
IndexOf(texts, t) ==
    IF \E i \in 1..Len(texts) : texts[i] = t
    THEN CHOOSE i \in 1..Len(texts) : texts[i] = t /\ \A j \in 1..(i - 1) : texts[j] # t
    ELSE 0

\* The completion is one of a whole line, in a scope whose commands include
\* account-info and account-balance.
AccountCase(text) ==
    /\ call.op = "CompletorFunc"
    /\ call.input = text
    /\ call.arg = Len(text)
    /\ {s_account_info, s_account_balance}
          \subseteq ChildNames(GetCommand(scopes[Top(ScopeStack)], rev))

\* C22: in a scope whose commands include account-info and account-balance,
\* completing acc returns both names, and completing account-b returns
\* account-balance first, account-info not ahead of it.
C22_AccountCompletions ==
    /\ AccountCase(s_acc) =>
          /\ IndexOf(Texts(call.sugg), s_account_info) > 0
          /\ IndexOf(Texts(call.sugg), s_account_balance) > 0
    /\ AccountCase(s_account_b) =>
          /\ IndexOf(Texts(call.sugg), s_account_balance) = 1
          /\ IndexOf(Texts(call.sugg), s_account_info) \in {0} \cup (2..Len(call.sugg))

\* C22 happens: account-b was completed in the binance scope and
\* account-balance came back first.
C22_Witness ==
    /\ AccountCase(s_account_b)
    /\ Len(call.cand) > 2
    /\ call.sugg[1].Text = s_account_balance


\* C23: when a line that splits into words is executed on an empty scope
\* stack, ExecutorFunc warns "current scope is nil" and returns, and the
\* process keeps running.
C23_EmptyStackIsDefended ==
    [][/\ call'.op = "ExecutorFunc"
       /\ ScopeStack = <<>>
       /\ ~IsEmptyInput(call'.input)
       /\ Split(call'.input).err = NoErr
       => /\ proc' = "running"
          /\ Warned(call'.out, "current scope is nil", <<>>)
          /\ ScopeStack' = ScopeStack]_vars


\* C24: in the shell every reachable state has depth 1 or 2; no step from
\* depth 2 adds a frame, use is a command of the root scope's tree only, and
\* depth 2 is entered only from depth 1, by a use binance that built its
\* scope.
C24_ShellDepthOneOrTwo ==
    /\ [](Len(ScopeStack) \in {1, 2})
    /\ [](\A i \in 1..Len(scopes) :
             s_use \in TreeNames(ExecTree(scopes[i])) <=> scopes[i].kind = "root")
    /\ [][Len(ScopeStack) = 2 => Len(ScopeStack') <= 2]_vars
    /\ [][Len(ScopeStack) # 2 /\ Len(ScopeStack') = 2 =>
             /\ Len(ScopeStack) = 1
             /\ call'.op = "ExecutorFunc"
             /\ call'.path = <<s_use, s_binance>>
             /\ call'.ran = "binance"
             /\ creds /\ call'.up
             /\ call'.out = <<>>]_vars

\* C24 happens: the shell is at depth 2 for the second time, a line having
\* been executed in the second Binance scope.
C24_Witness ==
    /\ Len(ScopeStack) = 2
    /\ Len(scopes) = 3
    /\ Top(ScopeStack) = 3
    /\ call.op = "ExecutorFunc"
    /\ call.input = L_use_binance
    /\ call.stage = "execute"
    /\ call.ran = "none"


\* The last call pushed a scope: env.Push itself, or a use binance that
\* built its scope, which is then the newest scope object.
Pushed == call.op = "Push" \/ (call.op = "ExecutorFunc" /\ call.ran = "binance"
                                /\ creds /\ call.up)
PushedScope == IF call.op = "Push" THEN call.arg ELSE Len(scopes)

\* C25: Push followed at once by Pop is the identity. On every reachable
\* stack of depth >= 1 and for every scope s, Pop after Push(s) does not
\* exit, returns s and leaves the same frames in the same order, with the
\* same prompt prefix; and a Pop step that follows a push step returns the
\* scope pushed and undoes the push, so that use binance then exit at depth
\* 1 brings the prompt back to "mercator> ".
C25_PushPopIdentity ==
    /\ [](Len(ScopeStack) >= 1 =>
             \A s \in 1..Len(scopes) :
                LET p == Pop(Push(ScopeStack, s))
                IN  /\ ~p.exits
                    /\ p.stack = ScopeStack
                    /\ p.ret = s
                    /\ ChangeLivePrefix(p.stack, scopes).prefix
                           = ChangeLivePrefix(ScopeStack, scopes).prefix)
    /\ [][Pushed /\ PopStep =>
             /\ proc' = "running"
             /\ call'.ret = PushedScope
             /\ Push(ScopeStack', PushedScope) = ScopeStack
             /\ scopes[PushedScope].kind = "binance" /\ Len(ScopeStack') = 1 =>
                    ChangeLivePrefix(ScopeStack', scopes').prefix
                        = s_mercator \o <<">", SP>>]_vars

\* C25 happens: use binance was followed by exit, which returned the
\* Binance scope and left the root scope alone on the stack.
C25_Witness ==
    /\ call.op = "ExecutorFunc"
    /\ call.ran = "exit"
    /\ call.ret = 2
    /\ nPush = 1
    /\ nPop = 1
    /\ Len(scopes) = 2
    /\ ScopeStack = <<rootScope>>
    /\ proc = "running"


\* The value the variable price of shares holds in a scope object from
\* earlier invocations: what a body assigned last, else what a parse set;
\* Nil when no invocation has set it.
RetainedPrice(obj) ==
    LET written == {x \in obj.vars : x[1] = s_shares /\ x[2] = s_price}
        parsed == {x \in obj.set : x[1] = s_shares /\ x[2] = s_price}
    IN  IF written # {} THEN (CHOOSE x \in written : TRUE)[3]
        ELSE IF parsed # {} THEN (CHOOSE x \in parsed : TRUE)[3]
        ELSE Nil

\* C26: the variables bound to the flags of shares persist across
\* invocations. When price was set by an earlier invocation, through --price
\* or by the market price of a symbol, an invocation with neither --price
\* nor a symbol prints inv/price for the retained price, not for the
\* declared default 1.
C26_SharesPriceRetained ==
    [][/\ call'.op = "ExecutorFunc"
       /\ call'.ran = "shares"
       /\ call'.input \in {L_shares, L_shares_inv}
       /\ RetainedPrice(scopes[Top(ScopeStack)]) # Nil
       => LET v == RetainedPrice(scopes[Top(ScopeStack)])
          IN  /\ call'.out = <<Msg("stdout", "Shares",
                                   [inv |-> 6, shares |-> Ratio(6, v), price |-> v])>>
              /\ RetainedPrice(scopes'[Top(ScopeStack)]) = v]_vars

\* C26 happens: shares --inv 6 was computed at the market price 3 that an
\* earlier invocation with a symbol had left in price.
C26_Witness ==
    /\ call.op = "ExecutorFunc"
    /\ call.input = L_shares_inv
    /\ call.ran = "shares"
    /\ call.out = <<Msg("stdout", "Shares",
                        [inv |-> 6, shares |-> Ratio(6, 3), price |-> 3])>>


\* The symbols of a convert line: the words after convert --amount 2.
ConvertSymbols(input) == SubSeq(Split(input).words, 4, Len(Split(input).words))

\* C27: convert reports for each symbol given the value of that symbol: the
\* line for args[i] is amount times the price of args[i], with the precision
\* of args[i]'s symbol info, and an unknown symbol is reported as unknown
\* while the lines of the other symbols are as they would be without it.
C27_ValueOfEachSymbol ==
    (call.op = "ExecutorFunc" /\ call.ran = "convert" /\ call.up) =>
        LET args == ConvertSymbols(call.input)
        IN  /\ Len(call.out) = Len(args)
            /\ \A i \in 1..Len(args) :
                   IF args[i] \in DOMAIN TickerPrices
                   THEN call.out[i] =
                            Msg("stdout", "value",
                                [symbol |-> args[i],
                                 value |-> 2 * ParseFloat(TickerPrices[args[i]]),
                                 precision |-> BaseAssetPrecision(args[i])])
                   ELSE call.out[i].ch = "error"


\* The prices of the last comparison, and the suggestions it printed.
ComparedPrices ==
    /\ call.op = "compare"
    /\ \A i \in 1..3 : IsNumeral(call.input[i])
    /\ ParseFloat(call.input[3]) > 0
Suggestions ==
    SelectSeq(call.out, LAMBDA m : m.text \in {"no opportunity", "buy and sell"})

\* C28: compare A B C with prices mp, c1, c2 and c2 > 0 prints exactly one
\* suggestion: no opportunity when |c1*c2 - mp| / mp * 100 < 1 (with mp = 0
\* the quotient is no number below 1), else buy B and sell A when
\* c1*c2 < mp, else buy A and sell B; below 1% no direction is suggested.
C28_CompareThreshold ==
    ComparedPrices =>
        LET mp == ParseFloat(call.input[1])
            conv == ParseFloat(call.input[2]) * ParseFloat(call.input[3])
            diff == IF conv < mp THEN mp - conv ELSE conv - mp
            under == mp > 0 /\ 100 * diff < mp
        IN  /\ Len(Suggestions) = 1
            /\ Suggestions[1] =
                   IF under THEN Msg("stdout", "no opportunity", <<>>)
                   ELSE IF conv < mp
                   THEN Msg("stdout", "buy and sell",
                            [buy |-> CompareArgs[2], sell |-> CompareArgs[1]])
                   ELSE Msg("stdout", "buy and sell",
                            [buy |-> CompareArgs[1], sell |-> CompareArgs[2]])

\* C28 happens: market price 200 against a converted price of 201, half a
\* percent apart, and the suggestion is no opportunity.
C28_Witness ==
    /\ ComparedPrices
    /\ call.input = <<<<"2", "0", "0">>, <<"2", "0", "1">>, <<"1">> >>
    /\ Suggestions = <<Msg("stdout", "no opportunity", <<>>)>>

\* C29: getSymbolList returns one entry for each symbol of the listing: as
\* many entries as symbols, each the name of its symbol, none empty.
C29_OneEntryPerSymbol ==
    call.op = "getSymbolList" =>
        /\ Len(call.ret) = Len(call.input)
        /\ \A i \in 1..Len(call.ret) :
               /\ call.ret[i] # <<>>
               /\ \E k \in 1..Len(call.input) : call.ret[i] = call.input[k].Symbol

\* C30: padLeft with a pad of one character returns exactly length
\* characters, and when str is no longer than length the result ends with
\* the whole of str.
C30_PadLeftKeepsStr ==
    (call.op = "padLeft" /\ Len(call.arg.pad) = 1) =>
        /\ Len(call.ret) = call.arg.length
        /\ Len(call.input) <= call.arg.length =>
               SubSeq(call.ret, call.arg.length - Len(call.input) + 1, call.arg.length)
                   = call.input

=============================================================================
